---- MODULE Spec2Model ----
(***************************************************************************)
(* Model of datahop/matrix-charts (package main).  The program reads the   *)
(* logs logs/<name>.log, builds go-echarts charts from them, writes one    *)
(* html/<name>.html per page and then serves the html directory.           *)
(*                                                                         *)
(* The environment (the content of the logs directory, the html files left *)
(* by an earlier run, and the outcome of os.Create, page.Render and        *)
(* http.ListenAndServe) is nondeterministic.  A range over a Go map visits *)
(* the keys in an unspecified order: the model picks the next key freely   *)
(* and records the order in the history variable `order`.                  *)
(*                                                                         *)
(* Only the struct fields the program reads are kept.  int64 values stay   *)
(* far from the 64-bit limits, so the subtraction of bleToWifi does not    *)
(* wrap.  A float32 AvgSpeed is the dyadic rational n / SpeedScale.        *)
(*                                                                         *)
(* The repository holds two variants of the program.  The model follows    *)
(* the later one, which adds the battery page; the earlier one (main.go)   *)
(* has the same four aggregators and the same main loop over the four      *)
(* matrix logs only.                                                       *)
(***************************************************************************)
EXTENDS Integers, Sequences, FiniteSets, TLC

VARIABLES
    logs,            \* logs/<name>.log: the input files (environment)
    html,            \* html/<name>.html: the output files
    pc,              \* position of the process
    i,               \* index of main's current range loop
    data,            \* the unmarshalled record of the current page
    charts,          \* the charts built so far for the current page
    todo,            \* keys of the ranged map not visited yet
    node,            \* key of the map entry the outer loop is at
    ki,              \* position of the inner loop in that entry's list
    xAxis,           \* local xAxis of the running aggregator
    yAxis,           \* local yAxis / items / tenMbItems of the running aggregator
    hundredMbItems,  \* local hundredMbItems of transferIntervalToBatteryPercentage
    order,           \* history: order in which each aggregator visited its map
    reparseFailed    \* history: strconv.ParseFloat returned an error

vars == <<logs, html, pc, i, data, charts, todo, node, ki, xAxis, yAxis,
          hundredMbItems, order, reparseFailed>>

loopVars == <<todo, node, ki, xAxis, yAxis, hundredMbItems>>

(***************************************************************************)
(* Bounds of the model.                                                    *)
(***************************************************************************)
MaxHist == 2
MaxDelays == 2
MaxMeasurements == 3

(***************************************************************************)
(* Program constants.                                                      *)
(***************************************************************************)
matrixFiles ==
    <<"zero_host_downloader", "zero_client_uploader",
      "five_host_downloader", "five_client_uploader">>

batteryMeasurementFiles == <<"battery_measurements">>

PageNames ==
    {matrixFiles[n] : n \in 1..Len(matrixFiles)}
        \cup {batteryMeasurementFiles[n] : n \in 1..Len(batteryMeasurementFiles)}

SpeedScale == 2 ^ 6

None == ""

(***************************************************************************)
(* Sequences of length at most n over S.                                   *)
(***************************************************************************)
SeqUpTo(S, n) == UNION {[1..m -> S] : m \in 0..n}

(***************************************************************************)
(* Files.                                                                  *)
(***************************************************************************)
Missing == [kind |-> "missing", data |-> <<>>]
Malformed == [kind |-> "malformed", data |-> <<>>]
LogFile(d) == [kind |-> "ok", data |-> d]

Absent == [state |-> "absent", title |-> "", charts |-> <<>>]
Stale == [state |-> "stale", title |-> "", charts |-> <<>>]
Empty == [state |-> "empty", title |-> "", charts |-> <<>>]
Partial == [state |-> "partial", title |-> "", charts |-> <<>>]
Document(t, cs) == [state |-> "complete", title |-> t, charts |-> cs]

Chart(kind, title, x, series) ==
    [kind |-> kind, title |-> title, xAxis |-> x, series |-> series]

Series(name, d) == [name |-> name, data |-> d]

(***************************************************************************)
(* Local state of an aggregator at its entry: the ranged map's keys are    *)
(* all still to visit and the axes are empty.                              *)
(***************************************************************************)
Enter(keys) ==
    /\ todo' = keys
    /\ node' = None
    /\ ki' = 1
    /\ xAxis' = <<>>
    /\ yAxis' = <<>>
    /\ hundredMbItems' = <<>>

NoOrder ==
    [bleToWifi |-> <<>>, bleToIpfs |-> <<>>, rssiSpeed |-> <<>>,
     downloadSpeed |-> <<>>]

\* log.Fatal: the process exits with status 1.
Fatal ==
    /\ pc' = "fatal"
    /\ UNCHANGED <<logs, html, i, data, charts, loopVars, order, reparseFailed>>

\* mutant: the html file is created before the log is read
RenderMatrixPageLoadCreateFirst ==
    /\ pc = "main.matrixFiles"
    /\ i <= Len(matrixFiles)
    /\ LET file == logs[matrixFiles[i]] IN
       IF file.kind # "ok"
       THEN /\ html' = [html EXCEPT ![matrixFiles[i]] = Empty]
            /\ pc' = "fatal"
            /\ UNCHANGED <<logs, i, data, charts, loopVars, order,
                           reparseFailed>>
       ELSE /\ data' = file.data
            /\ charts' = <<>>
            /\ order' = NoOrder
            /\ pc' = "bleToWifi"
            /\ Enter(DOMAIN file.data.NodeMatrix)
            /\ UNCHANGED <<logs, html, i, reparseFailed>>

\* mutant: an unreadable log is reported with a returned error that main
\* does not treat as fatal, so the page is skipped
RenderMatrixPageLoadSkip ==
    /\ pc = "main.matrixFiles"
    /\ i <= Len(matrixFiles)
    /\ LET file == logs[matrixFiles[i]] IN
       IF file.kind # "ok"
       THEN /\ i' = i + 1
            /\ UNCHANGED <<logs, html, pc, data, charts, loopVars, order,
                           reparseFailed>>
       ELSE /\ data' = file.data
            /\ charts' = <<>>
            /\ order' = NoOrder
            /\ pc' = "bleToWifi"
            /\ Enter(DOMAIN file.data.NodeMatrix)
            /\ UNCHANGED <<logs, html, i, reparseFailed>>

(***************************************************************************)
(* renderMatrixPage, up to the call of the first aggregator: ioutil.       *)
(* ReadFile and json.Unmarshal.  Either failure is a log.Fatal.            *)
(***************************************************************************)
RenderMatrixPageLoad ==
    /\ pc = "main.matrixFiles"
    /\ i <= Len(matrixFiles)
    /\ LET file == logs[matrixFiles[i]] IN
       IF file.kind # "ok"
       THEN Fatal
       ELSE /\ data' = file.data
            /\ charts' = <<>>
            /\ order' = NoOrder
            /\ pc' = "bleToWifi"
            /\ Enter(DOMAIN file.data.NodeMatrix)
            /\ UNCHANGED <<logs, html, i, reparseFailed>>

(***************************************************************************)
(* bleToWifi                                                               *)
(***************************************************************************)
ConnectionHistory(v) == data.NodeMatrix[v].ConnectionHistory

\* mutant: the test reads the wrong timestamp
WifiConnectedByBLE(k) == k.BLEDiscoveredAt # 0

WifiConnected(k) == k.WifiConnectedAt # 0

\* for _, v := range data.NodeMatrix
BleToWifiRange ==
    /\ pc = "bleToWifi"
    /\ IF node = None THEN TRUE ELSE ki > Len(ConnectionHistory(node))
    /\ \E v \in todo :
        /\ node' = v
        /\ todo' = todo \ {v}
        /\ order' = [order EXCEPT !.bleToWifi = Append(@, v)]
    /\ ki' = 1
    /\ UNCHANGED <<logs, html, pc, i, data, charts, xAxis, yAxis,
                   hundredMbItems, reparseFailed>>

\* mutant: the x-value is the index within the node's history
BleToWifiBodyNodeIndex ==
    /\ pc = "bleToWifi"
    /\ node # None
    /\ ki <= Len(ConnectionHistory(node))
    /\ LET k == ConnectionHistory(node)[ki] IN
       IF WifiConnected(k)
       THEN /\ xAxis' = Append(xAxis, ki - 1)
            /\ yAxis' = Append(yAxis, k.WifiConnectedAt - k.BLEDiscoveredAt)
       ELSE UNCHANGED <<xAxis, yAxis>>
    /\ ki' = ki + 1
    /\ UNCHANGED <<logs, html, pc, i, data, charts, todo, node,
                   hundredMbItems, order, reparseFailed>>

\* for _, k := range v.ConnectionHistory
BleToWifiBody ==
    /\ pc = "bleToWifi"
    /\ node # None
    /\ ki <= Len(ConnectionHistory(node))
    /\ LET k == ConnectionHistory(node)[ki] IN
       IF WifiConnected(k)
       THEN /\ xAxis' = Append(xAxis, Len(xAxis))
            /\ yAxis' = Append(yAxis, k.WifiConnectedAt - k.BLEDiscoveredAt)
       ELSE UNCHANGED <<xAxis, yAxis>>
    /\ ki' = ki + 1
    /\ UNCHANGED <<logs, html, pc, i, data, charts, todo, node,
                   hundredMbItems, order, reparseFailed>>

\* line.SetXAxis(xAxis).AddSeries("BLE to Wifi", yAxis); return line
BleToWifiReturn ==
    /\ pc = "bleToWifi"
    /\ IF node = None THEN TRUE ELSE ki > Len(ConnectionHistory(node))
    /\ todo = {}
    /\ charts' = Append(charts,
           Chart("line", "Seconds from BLE discovery to Successful Wifi connection",
                 xAxis, <<Series("BLE to Wifi", yAxis)>>))
    /\ pc' = "bleToIpfs"
    /\ Enter(DOMAIN data.NodeMatrix)
    /\ UNCHANGED <<logs, html, i, data, order, reparseFailed>>

BleToWifi == BleToWifiRange \/ BleToWifiBody \/ BleToWifiReturn

(***************************************************************************)
(* bleToIpfs                                                               *)
(***************************************************************************)
DiscoveryDelays(v) == data.NodeMatrix[v].DiscoveryDelays

\* for _, v := range data.NodeMatrix
BleToIpfsRange ==
    /\ pc = "bleToIpfs"
    /\ IF node = None THEN TRUE ELSE ki > Len(DiscoveryDelays(node))
    /\ \E v \in todo :
        /\ node' = v
        /\ todo' = todo \ {v}
        /\ order' = [order EXCEPT !.bleToIpfs = Append(@, v)]
    /\ ki' = 1
    /\ UNCHANGED <<logs, html, pc, i, data, charts, xAxis, yAxis,
                   hundredMbItems, reparseFailed>>

\* mutant: a zero delay is skipped, as bleToWifi skips a zero timestamp
BleToIpfsBodySkipZero ==
    /\ pc = "bleToIpfs"
    /\ node # None
    /\ ki <= Len(DiscoveryDelays(node))
    /\ IF DiscoveryDelays(node)[ki] # 0
       THEN /\ xAxis' = Append(xAxis, Len(xAxis))
            /\ yAxis' = Append(yAxis, DiscoveryDelays(node)[ki])
       ELSE UNCHANGED <<xAxis, yAxis>>
    /\ ki' = ki + 1
    /\ UNCHANGED <<logs, html, pc, i, data, charts, todo, node,
                   hundredMbItems, order, reparseFailed>>

\* for _, k := range v.DiscoveryDelays
BleToIpfsBody ==
    /\ pc = "bleToIpfs"
    /\ node # None
    /\ ki <= Len(DiscoveryDelays(node))
    /\ xAxis' = Append(xAxis, Len(xAxis))
    /\ yAxis' = Append(yAxis, DiscoveryDelays(node)[ki])
    /\ ki' = ki + 1
    /\ UNCHANGED <<logs, html, pc, i, data, charts, todo, node,
                   hundredMbItems, order, reparseFailed>>

\* line.SetXAxis(xAxis).AddSeries("BLE to IPFS", yAxis); return line
BleToIpfsReturn ==
    /\ pc = "bleToIpfs"
    /\ IF node = None THEN TRUE ELSE ki > Len(DiscoveryDelays(node))
    /\ todo = {}
    /\ charts' = Append(charts,
           Chart("line", "Seconds from BLE discovery to Successful IPFS connection",
                 xAxis, <<Series("BLE to IPFS", yAxis)>>))
    /\ pc' = "rssiSpeed"
    /\ Enter(DOMAIN data.NodeMatrix)
    /\ UNCHANGED <<logs, html, i, data, order, reparseFailed>>

BleToIpfs == BleToIpfsRange \/ BleToIpfsBody \/ BleToIpfsReturn

(***************************************************************************)
(* rssiSpeed                                                               *)
(***************************************************************************)
\* mutant: the two dimensions are swapped
ParallelDataSwapped(k) == <<k.Speed, k.RSSI>>

\* opts.ParallelData{Value: []interface{}{k.RSSI, k.Speed}}
ParallelData(k) == <<k.RSSI, k.Speed>>

\* for _, v := range data.NodeMatrix
RssiSpeedRange ==
    /\ pc = "rssiSpeed"
    /\ IF node = None THEN TRUE ELSE ki > Len(ConnectionHistory(node))
    /\ \E v \in todo :
        /\ node' = v
        /\ todo' = todo \ {v}
        /\ order' = [order EXCEPT !.rssiSpeed = Append(@, v)]
    /\ ki' = 1
    /\ UNCHANGED <<logs, html, pc, i, data, charts, xAxis, yAxis,
                   hundredMbItems, reparseFailed>>

\* for _, k := range v.ConnectionHistory
RssiSpeedBody ==
    /\ pc = "rssiSpeed"
    /\ node # None
    /\ ki <= Len(ConnectionHistory(node))
    /\ yAxis' = Append(yAxis, ParallelData(ConnectionHistory(node)[ki]))
    /\ ki' = ki + 1
    /\ UNCHANGED <<logs, html, pc, i, data, charts, todo, node, xAxis,
                   hundredMbItems, order, reparseFailed>>

\* parallel.AddSeries("RSSI Speed", items); return parallel
RssiSpeedReturn ==
    /\ pc = "rssiSpeed"
    /\ IF node = None THEN TRUE ELSE ki > Len(ConnectionHistory(node))
    /\ todo = {}
    /\ charts' = Append(charts,
           Chart("parallel", "RSSI Speed", <<"RSSI", "Speed">>,
                 <<Series("RSSI Speed", yAxis)>>))
    /\ pc' = "downloadSpeed"
    /\ Enter(DOMAIN data.ContentMatrix)
    /\ UNCHANGED <<logs, html, i, data, order, reparseFailed>>

RssiSpeed == RssiSpeedRange \/ RssiSpeedBody \/ RssiSpeedReturn

(***************************************************************************)
(* downloadSpeed                                                           *)
(*                                                                         *)
(* A string is a sequence of one-character strings.  The float64 that      *)
(* strconv.ParseFloat returns is kept as the decimal fraction it read,     *)
(* num / den with den a power of ten.                                      *)
(***************************************************************************)
Digits == <<"0", "1", "2", "3", "4", "5", "6", "7", "8", "9">>

IsDigit(c) == \E d \in 1..10 : Digits[d] = c

DigitValue(c) == (CHOOSE d \in 1..10 : Digits[d] = c) - 1

RECURSIVE FormatUint(_)
FormatUint(n) ==
    IF n < 10 THEN <<Digits[n + 1]>>
    ELSE FormatUint(n \div 10) \o <<Digits[(n % 10) + 1]>>

RECURSIVE ParseUint(_, _)
ParseUint(s, acc) ==
    IF s = <<>> THEN acc
    ELSE ParseUint(Tail(s), acc * 10 + DigitValue(Head(s)))

\* The decimal digits of a / d rounded to an integer, ties to even
\* (strconv rounds the exact value of the float this way).
RoundHalfEven(a, d) ==
    LET q == a \div d
        r == a % d
    IN  IF 2 * r > d \/ (2 * r = d /\ q % 2 = 1) THEN q + 1 ELSE q

\* mutant: the format is "%.2f"
Sprintf2f(n) ==
    LET a == IF n < 0 THEN -n ELSE n
        t == RoundHalfEven(a * 100, SpeedScale)
    IN  (IF n < 0 THEN <<"-">> ELSE <<>>)
            \o FormatUint(t \div 100) \o <<".">>
            \o <<Digits[((t \div 10) % 10) + 1], Digits[(t % 10) + 1]>>

\* fmt.Sprintf("%.1f", v.AvgSpeed) for the float32 n / SpeedScale
Sprintf1f(n) ==
    LET a == IF n < 0 THEN -n ELSE n
        t == RoundHalfEven(a * 10, SpeedScale)
    IN  (IF n < 0 THEN <<"-">> ELSE <<>>)
            \o FormatUint(t \div 10) \o <<".">> \o <<Digits[(t % 10) + 1]>>

\* strconv.ParseFloat(s, 64) on a plain decimal: [sign] digits [. digits]
ParseFloat(s) ==
    LET signed == s # <<>> /\ Head(s) \in {"-", "+"}
        body == IF signed THEN Tail(s) ELSE s
        dots == {p \in 1..Len(body) : body[p] = "."}
        dot == IF dots = {} THEN Len(body) + 1 ELSE CHOOSE p \in dots : TRUE
        int == SubSeq(body, 1, dot - 1)
        frac == SubSeq(body, dot + 1, Len(body))
        ok == /\ Cardinality(dots) <= 1
              /\ Len(int) + Len(frac) > 0
              /\ \A p \in 1..Len(int) : IsDigit(int[p])
              /\ \A p \in 1..Len(frac) : IsDigit(frac[p])
    IN  IF ~ok
        THEN [f |-> [num |-> 0, den |-> 1], err |-> TRUE]
        ELSE [f |-> [num |-> (IF signed /\ Head(s) = "-" THEN -1 ELSE 1)
                                  * ParseUint(int \o frac, 0),
                     den |-> 10 ^ Len(frac)],
              err |-> FALSE]

\* for _, v := range data.ContentMatrix
DownloadSpeedBody ==
    /\ pc = "downloadSpeed"
    /\ \E t \in todo :
        LET v == data.ContentMatrix[t]
            s == Sprintf1f(v.AvgSpeed)
            r == ParseFloat(s)
        IN  /\ todo' = todo \ {t}
            /\ order' = [order EXCEPT !.downloadSpeed = Append(@, t)]
            /\ xAxis' = Append(xAxis, Len(xAxis))
            /\ yAxis' = Append(yAxis, r.f)
            /\ reparseFailed' = (reparseFailed \/ r.err)
    /\ UNCHANGED <<logs, html, pc, i, data, charts, node, ki, hundredMbItems>>

\* line.SetXAxis(xAxis).AddSeries("Download Speed", yAxis); return line
DownloadSpeedReturn ==
    /\ pc = "downloadSpeed"
    /\ todo = {}
    /\ charts' = Append(charts,
           Chart("line", "Download Speed", xAxis,
                 <<Series("Download Speed", yAxis)>>))
    /\ pc' = "renderMatrixPage.Create"
    /\ Enter({})
    /\ UNCHANGED <<logs, html, i, data, order, reparseFailed>>

DownloadSpeed == DownloadSpeedBody \/ DownloadSpeedReturn

(***************************************************************************)
(* The end of renderMatrixPage and renderBatteryMeasurementPage: os.Create *)
(* and page.Render, and the return to main's loop.                         *)
(***************************************************************************)
\* f, err := os.Create(...); if err != nil { log.Fatal }
OsCreate(here, next, pageName) ==
    /\ pc = here
    /\ \/ /\ html' = [html EXCEPT ![pageName] = Empty]
          /\ pc' = next
          /\ UNCHANGED <<logs, i, data, charts, loopVars, order, reparseFailed>>
       \/ Fatal

\* mutant: main logs the error of Render and goes on with the next page
PageRenderIgnoreError(here, loop, pageName, title) ==
    /\ pc = here
    /\ \/ html' = [html EXCEPT ![pageName] = Document(title, charts)]
       \/ \E left \in {Empty, Partial} :
             html' = [html EXCEPT ![pageName] = left]
    /\ pc' = loop
    /\ i' = i + 1
    /\ UNCHANGED <<logs, data, charts, loopVars, order, reparseFailed>>

\* return page.Render(io.MultiWriter(f)), and main's test of the error
PageRender(here, loop, pageName, title) ==
    /\ pc = here
    /\ \/ /\ html' = [html EXCEPT ![pageName] = Document(title, charts)]
          /\ pc' = loop
          /\ i' = i + 1
       \/ /\ \E left \in {Empty, Partial} :
                html' = [html EXCEPT ![pageName] = left]
          /\ pc' = "fatal"
          /\ i' = i
    /\ UNCHANGED <<logs, data, charts, loopVars, order, reparseFailed>>

RenderMatrixPageCreate ==
    OsCreate("renderMatrixPage.Create", "renderMatrixPage.Render", matrixFiles[i])

RenderMatrixPageRender ==
    PageRender("renderMatrixPage.Render", "main.matrixFiles", matrixFiles[i],
               "Datahop Matrix Charts")

(***************************************************************************)
(* renderBatteryMeasurementPage and transferIntervalToBatteryPercentage    *)
(***************************************************************************)
RenderBatteryMeasurementPageLoad ==
    /\ pc = "main.batteryMeasurementFiles"
    /\ i <= Len(batteryMeasurementFiles)
    /\ LET file == logs[batteryMeasurementFiles[i]] IN
       IF file.kind # "ok"
       THEN Fatal
       ELSE /\ data' = file.data
            /\ charts' = <<>>
            /\ order' = NoOrder
            /\ pc' = "transferIntervalToBatteryPercentage"
            /\ Enter({})
            /\ UNCHANGED <<logs, html, i, reparseFailed>>

\* mutant: whatever is not "10" is taken for "100"
BucketElse(v) == IF v.DataTransfer = "10" THEN "10Mb" ELSE "100Mb"

\* The series a measurement is appended to, None when it is dropped.
Bucket(v) ==
    IF v.DataTransfer = "10" THEN "10Mb"
    ELSE IF v.DataTransfer = "100" THEN "100Mb"
    ELSE None

\* for _, v := range data.BatteryMeasurement (yAxis holds tenMbItems)
TransferIntervalToBatteryPercentageBody ==
    /\ pc = "transferIntervalToBatteryPercentage"
    /\ ki <= Len(data.BatteryMeasurement)
    /\ LET v == data.BatteryMeasurement[ki] IN
        /\ yAxis' = IF Bucket(v) = "10Mb"
                    THEN Append(yAxis, v.BatteryConsumption) ELSE yAxis
        /\ hundredMbItems' = IF Bucket(v) = "100Mb"
                             THEN Append(hundredMbItems, v.BatteryConsumption)
                             ELSE hundredMbItems
    /\ ki' = ki + 1
    /\ UNCHANGED <<logs, html, pc, i, data, charts, todo, node, xAxis, order,
                   reparseFailed>>

\* bar.SetXAxis([]string{"40s", "120s"}).AddSeries(...).AddSeries(...)
TransferIntervalToBatteryPercentageReturn ==
    /\ pc = "transferIntervalToBatteryPercentage"
    /\ ki > Len(data.BatteryMeasurement)
    /\ charts' = Append(charts,
           Chart("bar", "Battery Consumption after 3 hours of transfer",
                 <<"40s", "120s">>,
                 <<Series("10Mb", yAxis), Series("100Mb", hundredMbItems)>>))
    /\ pc' = "renderBatteryMeasurementPage.Create"
    /\ Enter({})
    /\ UNCHANGED <<logs, html, i, data, order, reparseFailed>>

TransferIntervalToBatteryPercentage ==
    \/ TransferIntervalToBatteryPercentageBody
    \/ TransferIntervalToBatteryPercentageReturn

RenderBatteryMeasurementPageCreate ==
    OsCreate("renderBatteryMeasurementPage.Create",
             "renderBatteryMeasurementPage.Render", batteryMeasurementFiles[i])

RenderBatteryMeasurementPageRender ==
    PageRender("renderBatteryMeasurementPage.Render",
               "main.batteryMeasurementFiles", batteryMeasurementFiles[i],
               "Datahop Battery Measurement Charts")

(***************************************************************************)
(* main                                                                    *)
(***************************************************************************)
\* the first range loop is over: the second one starts
MainBatteryMeasurementFiles ==
    /\ pc = "main.matrixFiles"
    /\ i > Len(matrixFiles)
    /\ pc' = "main.batteryMeasurementFiles"
    /\ i' = 1
    /\ UNCHANGED <<logs, html, data, charts, loopVars, order, reparseFailed>>

\* http.ListenAndServe blocks while it serves; when it fails its error is
\* dropped and main returns.
MainListenAndServe ==
    /\ pc = "main.batteryMeasurementFiles"
    /\ i > Len(batteryMeasurementFiles)
    /\ pc' \in {"serving", "exit0"}
    /\ UNCHANGED <<logs, html, i, data, charts, loopVars, order, reparseFailed>>

RenderMatrixPage ==
    \/ RenderMatrixPageLoad
    \/ BleToWifi
    \/ BleToIpfs
    \/ RssiSpeed
    \/ DownloadSpeed
    \/ RenderMatrixPageCreate
    \/ RenderMatrixPageRender

RenderBatteryMeasurementPage ==
    \/ RenderBatteryMeasurementPageLoad
    \/ TransferIntervalToBatteryPercentage
    \/ RenderBatteryMeasurementPageCreate
    \/ RenderBatteryMeasurementPageRender

Next ==
    \/ RenderMatrixPage
    \/ MainBatteryMeasurementFiles
    \/ RenderBatteryMeasurementPage
    \/ MainListenAndServe

(***************************************************************************)
(* Inputs: the records a log file may hold.                                *)
(***************************************************************************)
NodeIds == {"n1", "n2"}

Tags == {"t1", "t2"}

ConnectionInfo(ble, wifi, rssi, speed) ==
    [BLEDiscoveredAt |-> ble, WifiConnectedAt |-> wifi,
     RSSI |-> rssi, Speed |-> speed]

\* connected, never connected, connected before discovered, BLE time zero
WifiInfos ==
    {ConnectionInfo(100, 105, -60, 54), ConnectionInfo(200, 0, -60, 54),
     ConnectionInfo(300, 250, -60, 54), ConnectionInfo(0, 7, -60, 54)}

RssiInfos ==
    {ConnectionInfo(100, 105, -60, 54), ConnectionInfo(200, 0, -80, 54),
     ConnectionInfo(100, 105, -60, 0)}

Delays == {-3, 0, 7}

\* numerators of AvgSpeed over SpeedScale: 0, -0.047, the ties 0.25 and
\* 0.75, 0.953, 3.14, -3.14, 9.98
AvgSpeeds == {0, -3, 16, 48, 61, 201, -201, 639}

Measurement(transfer, interval, consumption) ==
    [DataTransfer |-> transfer, TransferInterval |-> interval,
     BatteryConsumption |-> consumption]

Measurements ==
    {Measurement("10", "40", "5"), Measurement("10", "120", "9"),
     Measurement("100", "40", "7"), Measurement("100", "120", "12"),
     Measurement("50", "40", "3"), Measurement("50", "120", "4")}

NodeMatrices(H, D) ==
    UNION {[S -> [ConnectionHistory : H, DiscoveryDelays : D]] :
             S \in SUBSET NodeIds}

ContentMatrices(A) == UNION {[S -> [AvgSpeed : A]] : S \in SUBSET Tags}

\* logs that vary the connection histories (for bleToWifi and for
\* rssiSpeed), the discovery delays, the content records
WifiMatrices ==
    [NodeMatrix : NodeMatrices(SeqUpTo(WifiInfos, MaxHist), {<<>>}),
     ContentMatrix : {<<>>}]

RssiMatrices ==
    [NodeMatrix : NodeMatrices(SeqUpTo(RssiInfos, MaxHist), {<<>>}),
     ContentMatrix : {<<>>}]

IpfsMatrices ==
    [NodeMatrix : NodeMatrices({<<>>}, SeqUpTo(Delays, MaxDelays)),
     ContentMatrix : {<<>>}]

SpeedMatrices ==
    [NodeMatrix : {<<>>}, ContentMatrix : ContentMatrices(AvgSpeeds)]

BatteryLogs ==
    [BatteryMeasurement : SeqUpTo(Measurements, MaxMeasurements)]

\* the log of the example: one node, one content tag
SampleMatrix ==
    [NodeMatrix |->
        [n \in {"n1"} |->
            [ConnectionHistory |->
                <<ConnectionInfo(100, 105, -60, 54),
                  ConnectionInfo(200, 0, -80, 0)>>,
             DiscoveryDelays |-> <<7>>]],
     ContentMatrix |-> [t \in {"t1"} |-> [AvgSpeed |-> 201]]]

SampleBattery ==
    [BatteryMeasurement |->
        <<Measurement("10", "40", "5"), Measurement("50", "40", "3"),
          Measurement("100", "120", "12")>>]

Unreadable == {Missing, Malformed}

\* log directories whose first matrix log is drawn from M
FirstLog(M) ==
    {[p \in PageNames |-> IF p = matrixFiles[1] THEN f ELSE Missing] :
        f \in Unreadable \cup {LogFile(m) : m \in M}}

\* log directories whose battery log is drawn from B
LastLog(B) ==
    {[p \in PageNames |->
        IF p = batteryMeasurementFiles[1] THEN f ELSE LogFile(SampleMatrix)] :
        f \in Unreadable \cup {LogFile(b) : b \in B}}

RunLogs ==
    {l \in [PageNames -> Unreadable
                \cup {LogFile(SampleMatrix), LogFile(SampleBattery)}] :
        /\ \A n \in 1..Len(matrixFiles) :
              l[matrixFiles[n]] # LogFile(SampleBattery)
        /\ \A n \in 1..Len(batteryMeasurementFiles) :
              l[batteryMeasurementFiles[n]] # LogFile(SampleMatrix)}

(***************************************************************************)
(* The state at the start of main, for a set L of log directories and a    *)
(* set H of html directories.                                              *)
(***************************************************************************)
Start(L, H) ==
    /\ logs \in L
    /\ html \in H
    /\ pc = "main.matrixFiles"
    /\ i = 1
    /\ data = <<>>
    /\ charts = <<>>
    /\ todo = {}
    /\ node = None
    /\ ki = 1
    /\ xAxis = <<>>
    /\ yAxis = <<>>
    /\ hundredMbItems = <<>>
    /\ order = NoOrder
    /\ reparseFailed = FALSE

NoHtml == {[p \in PageNames |-> Absent]}

Init == Start(RunLogs, [PageNames -> {Absent, Stale}])

\* the whole program
Spec == Init /\ [][Next]_vars

\* renderMatrixPage on the first log, up to the return of the last
\* aggregator, on the logs that exercise the aggregators
Aggregators ==
    RenderMatrixPageLoad \/ BleToWifi \/ BleToIpfs \/ RssiSpeed \/ DownloadSpeed

SpecAggregators ==
    Start(FirstLog(WifiMatrices \cup RssiMatrices \cup IpfsMatrices
                       \cup SpeedMatrices), NoHtml)
        /\ [][Aggregators]_vars

\* the whole program, on the battery logs that exercise
\* transferIntervalToBatteryPercentage
SpecBattery ==
    Start(LastLog(BatteryLogs), NoHtml)
        /\ [][Next]_vars

(***************************************************************************)
(* Properties of the aggregators.                                          *)
(***************************************************************************)
RECURSIVE Flatten(_)
Flatten(ss) == IF ss = <<>> THEN <<>> ELSE Head(ss) \o Flatten(Tail(ss))

\* ord names every key of m once
Permutes(ord, m) ==
    /\ Len(ord) = Cardinality(DOMAIN m)
    /\ {ord[n] : n \in 1..Len(ord)} = DOMAIN m

\* the places <<node, index>> of the connection-history entries
HistoryPlaces ==
    UNION {{v} \X (1..Len(ConnectionHistory(v))) : v \in DOMAIN data.NodeMatrix}

DelayPlaces ==
    UNION {{v} \X (1..Len(DiscoveryDelays(v))) : v \in DOMAIN data.NodeMatrix}

RECURSIVE WifiDelays(_)
WifiDelays(h) ==
    IF h = <<>> THEN <<>>
    ELSE (IF Head(h).WifiConnectedAt = 0 THEN <<>>
          ELSE <<Head(h).WifiConnectedAt - Head(h).BLEDiscoveredAt>>)
             \o WifiDelays(Tail(h))

NodeWifiDelays(v) == WifiDelays(ConnectionHistory(v))

NodeRssiSpeed(v) ==
    [j \in 1..Len(ConnectionHistory(v)) |->
        <<ConnectionHistory(v)[j].RSSI, ConnectionHistory(v)[j].Speed>>]

\* the aggregator whose chart is charts[n] has returned
Returned(n) ==
    /\ pc \in {"bleToIpfs", "rssiSpeed", "downloadSpeed",
               "renderMatrixPage.Create", "renderMatrixPage.Render"}
    /\ Len(charts) >= n

ExampleHistory ==
    <<ConnectionInfo(100, 105, -60, 54), ConnectionInfo(200, 0, -60, 54)>>

\* C1: bleToWifi emits one point per connection-history entry with
\* WifiConnectedAt # 0, of value WifiConnectedAt - BLEDiscoveredAt (negative
\* values included), node by node in the order the map was ranged and in
\* history order within a node, and no point for an entry with
\* WifiConnectedAt = 0; the history [{100,105},{200,0}] of a single node
\* gives the single point 5.
C1_BleToWifiPoints ==
    Returned(1) =>
        LET y == charts[1].series[1].data IN
        /\ Permutes(order.bleToWifi, data.NodeMatrix)
        /\ y = Flatten([n \in 1..Len(order.bleToWifi) |->
                          NodeWifiDelays(order.bleToWifi[n])])
        /\ Len(y) = Cardinality({q \in HistoryPlaces :
                        ConnectionHistory(q[1])[q[2]].WifiConnectedAt # 0})
        /\ Len(charts[1].xAxis) = Len(y)
        /\ (\E v \in NodeIds :
                data.NodeMatrix = [n \in {v} |->
                    [ConnectionHistory |-> ExampleHistory,
                     DiscoveryDelays |-> <<>>]])
              => y = <<5>>

\* bleToWifi has returned on two nodes whose histories hold a skipped entry
\* and a negative delay
C1_Witness ==
    /\ Returned(1)
    /\ Cardinality(DOMAIN data.NodeMatrix) = 2
    /\ \E q \in HistoryPlaces :
          ConnectionHistory(q[1])[q[2]].WifiConnectedAt = 0
    /\ \E n \in 1..Len(charts[1].series[1].data) :
          charts[1].series[1].data[n] < 0
    /\ Len(charts[1].series[1].data) >= 2

\* C2: the series of bleToIpfs holds exactly the DiscoveryDelays values,
\* zero and negative ones included, each node's delays in list order; its
\* length is the sum of the nodes' list lengths.
C2_BleToIpfsPoints ==
    Returned(2) =>
        LET y == charts[2].series[1].data IN
        /\ Permutes(order.bleToIpfs, data.NodeMatrix)
        /\ y = Flatten([n \in 1..Len(order.bleToIpfs) |->
                          DiscoveryDelays(order.bleToIpfs[n])])
        /\ Len(y) = Cardinality(DelayPlaces)
        /\ Len(charts[2].xAxis) = Len(y)

C2_Witness ==
    /\ Returned(2)
    /\ \A v \in NodeIds :
          /\ v \in DOMAIN data.NodeMatrix
          /\ Len(DiscoveryDelays(v)) >= 1
    /\ \E n, m \in 1..Len(charts[2].series[1].data) :
          /\ charts[2].series[1].data[n] = 0
          /\ charts[2].series[1].data[m] < 0

\* C3: rssiSpeed emits one point <<RSSI, Speed>> per connection-history
\* entry, entries with WifiConnectedAt = 0 included.
C3_RssiSpeedPoints ==
    Returned(3) =>
        LET items == charts[3].series[1].data IN
        /\ Permutes(order.rssiSpeed, data.NodeMatrix)
        /\ items = Flatten([n \in 1..Len(order.rssiSpeed) |->
                              NodeRssiSpeed(order.rssiSpeed[n])])
        /\ Len(items) = Cardinality(HistoryPlaces)

C3_Witness ==
    /\ Returned(3)
    /\ Cardinality(DOMAIN data.NodeMatrix) = 2
    /\ \E q \in HistoryPlaces :
          ConnectionHistory(q[1])[q[2]].WifiConnectedAt = 0
    /\ \E n \in 1..Len(charts[3].series[1].data) :
          charts[3].series[1].data[n] = <<-80, 54>>

\* |n / SpeedScale - f| <= 1/20 for a decimal f with one fractional digit
RoundedToOneDecimal(n, f) ==
    LET d == 10 * n - f.num * SpeedScale IN
    /\ f.den = 10
    /\ 2 * (IF d < 0 THEN -d ELSE d) <= SpeedScale

\* C4: the series of downloadSpeed has one value per ContentMatrix entry,
\* the entry's AvgSpeed rounded to one decimal place (3.14 gives 3.1), and
\* the reparse never fails.
C4_DownloadSpeedPoints ==
    /\ ~reparseFailed
    /\ Returned(4) =>
        LET y == charts[4].series[1].data IN
        /\ Permutes(order.downloadSpeed, data.ContentMatrix)
        /\ Len(y) = Cardinality(DOMAIN data.ContentMatrix)
        /\ Len(charts[4].xAxis) = Len(y)
        /\ \A n \in 1..Len(y) :
              LET a == data.ContentMatrix[order.downloadSpeed[n]].AvgSpeed IN
              /\ RoundedToOneDecimal(a, y[n])
              /\ a = 201 => y[n] = [num |-> 31, den |-> 10]

C4_Witness ==
    /\ Returned(4)
    /\ \E n, m \in 1..Len(charts[4].series[1].data) :
          /\ data.ContentMatrix[order.downloadSpeed[n]].AvgSpeed = 201
          /\ charts[4].series[1].data[n] = [num |-> 31, den |-> 10]
          /\ data.ContentMatrix[order.downloadSpeed[m]].AvgSpeed = 639
          /\ charts[4].series[1].data[m] = [num |-> 100, den |-> 10]

ZeroBased(x) == \A n \in 1..Len(x) : x[n] = n - 1

\* C10: in bleToWifi, bleToIpfs and downloadSpeed, after every loop step
\* xAxis and yAxis have the same length and xAxis is 0, 1, 2, ...: the index
\* runs across the nodes and a skipped entry takes none; so is the x-axis of
\* each chart returned.
C10_RunningIndex ==
    /\ pc \in {"bleToWifi", "bleToIpfs", "downloadSpeed"} =>
          /\ Len(xAxis) = Len(yAxis)
          /\ ZeroBased(xAxis)
    /\ \A c \in {1, 2, 4} :
          Returned(c) =>
              /\ Len(charts[c].xAxis) = Len(charts[c].series[1].data)
              /\ ZeroBased(charts[c].xAxis)

\* bleToWifi is in its second node, after a first node whose history is a
\* connected entry followed by a skipped one
C10_Witness ==
    /\ pc = "bleToWifi"
    /\ Len(order.bleToWifi) = 2
    /\ ConnectionHistory(order.bleToWifi[1]) = ExampleHistory
    /\ ki = 2
    /\ xAxis = <<0, 1>>

RECURSIVE Consumptions(_, _)
Consumptions(ms, dt) ==
    IF ms = <<>> THEN <<>>
    ELSE (IF Head(ms).DataTransfer = dt
          THEN <<Head(ms).BatteryConsumption>> ELSE <<>>)
             \o Consumptions(Tail(ms), dt)

BatteryReturned ==
    /\ pc \in {"renderBatteryMeasurementPage.Create",
               "renderBatteryMeasurementPage.Render"}
    /\ Len(charts) = 1

\* C5: the "10Mb" series holds the BatteryConsumption of the measurements
\* with DataTransfer "10" and the "100Mb" series those with "100", in input
\* order; a measurement with another DataTransfer is in neither; the
\* x-axis categories are "40s", "120s" whatever the TransferInterval values.
C5_BatteryBuckets ==
    BatteryReturned =>
        /\ charts[1].xAxis = <<"40s", "120s">>
        /\ charts[1].series =
              <<Series("10Mb", Consumptions(data.BatteryMeasurement, "10")),
                Series("100Mb", Consumptions(data.BatteryMeasurement, "100"))>>

\* the chart of a log with a dropped measurement and two measurements of
\* one bucket, the one of interval "120" first
C5_Witness ==
    /\ BatteryReturned
    /\ \E a, b, c \in 1..Len(data.BatteryMeasurement) :
          /\ data.BatteryMeasurement[a].DataTransfer = "50"
          /\ b < c
          /\ data.BatteryMeasurement[b].DataTransfer = "100"
          /\ data.BatteryMeasurement[c].DataTransfer = "100"
          /\ data.BatteryMeasurement[b].TransferInterval = "120"
          /\ data.BatteryMeasurement[c].TransferInterval = "40"
    /\ charts[1].series[1].data = <<>>
    /\ charts[1].series[2].data = <<"12", "7">>

(***************************************************************************)
(* Properties of the run.                                                  *)
(***************************************************************************)
Pages == matrixFiles \o batteryMeasurementFiles

\* html/<p>.html holds the complete document, written by this run
Written(p) == html[p].state = "complete"

\* this run has neither created nor truncated html/<p>.html
Untouched(p) == html[p].state \in {"absent", "stale"}

\* main is about to load a log that cannot be read or parsed
LoadFails ==
    \/ /\ pc = "main.matrixFiles"
       /\ i <= Len(matrixFiles)
       /\ logs[matrixFiles[i]].kind # "ok"
    \/ /\ pc = "main.batteryMeasurementFiles"
       /\ i <= Len(batteryMeasurementFiles)
       /\ logs[batteryMeasurementFiles[i]].kind # "ok"

\* C6: when the log of a page is missing, unreadable or malformed, the
\* process terminates at the load of that page: no aggregator runs for it
\* and no html file is created or truncated, so the file an earlier run
\* left is unchanged.
C6_LoadFailureIsFatal ==
    [][LoadFails =>
          /\ pc' = "fatal"
          /\ html' = html
          /\ UNCHANGED <<data, charts, order, xAxis, yAxis, hundredMbItems>>]_vars

\* the run stopped at the malformed second log, with the second page's
\* stale html file still there
C6_Witness ==
    /\ pc = "fatal"
    /\ i = 2
    /\ logs[matrixFiles[2]].kind = "malformed"
    /\ html[matrixFiles[2]] = Stale
    /\ Written(matrixFiles[1])

\* C7 as stated: whenever the process terminates on an error, the run has
\* written the html file of no page.
C7_NoPartialChartSet ==
    pc = "fatal" => \A p \in PageNames : ~Written(p)

\* C7 amended: an error on a page is fatal to the whole run; when the
\* process terminates on it, the run has completely written every page
\* before the failing one, has not completed the failing page, and has not
\* touched any later page.
C7_FailureKeepsEarlierPages ==
    pc = "fatal" =>
        \E k \in 1..Len(Pages) :
            /\ \A j \in 1..(k - 1) : Written(Pages[j])
            /\ ~Written(Pages[k])
            /\ \A j \in (k + 1)..Len(Pages) : Untouched(Pages[j])

\* the run stopped on the third page's write error, two pages written
C7_Witness ==
    /\ pc = "fatal"
    /\ Written(Pages[1])
    /\ Written(Pages[2])
    /\ html[Pages[3]] = Partial
    /\ Untouched(Pages[4])
    /\ Untouched(Pages[5])

\* the position in Pages of the page being rendered, 0 in main
Rendering ==
    IF pc \in {"bleToWifi", "bleToIpfs", "rssiSpeed", "downloadSpeed",
               "renderMatrixPage.Create", "renderMatrixPage.Render"}
    THEN i
    ELSE IF pc \in {"transferIntervalToBatteryPercentage",
                    "renderBatteryMeasurementPage.Create",
                    "renderBatteryMeasurementPage.Render"}
    THEN Len(matrixFiles) + i
    ELSE 0

InOrder ==
    /\ \A k \in 1..Len(Pages) :
          ~Untouched(Pages[k]) => \A j \in 1..(k - 1) : Written(Pages[j])
    /\ \A j \in 1..(Rendering - 1) : Written(Pages[j])
    /\ \A j \in (Rendering + 1)..Len(Pages) :
          Rendering > 0 => Untouched(Pages[j])
    /\ pc \in {"serving", "exit0"} => \A p \in PageNames : Written(p)

\* C8: the pages are rendered one at a time in the order of the file lists,
\* the four matrix logs and then battery_measurements; once the log of a
\* page is read the html files of all pages before it are written and none
\* after it is touched; the server is started only when every page is
\* written; after a failure nothing more happens.
C8_PagesInOrderThenServer ==
    [][InOrder' /\ (pc = "fatal" => pc' = "fatal")]_vars

\* the server runs, every page written
C8_Witness ==
    /\ pc = "serving"
    /\ \A p \in PageNames : Written(p)

\* C9 as stated: when the process has terminated or the server runs, each
\* html file this run touched holds the complete document; a failure never
\* leaves a file created or truncated with empty or partial content.
C9_WrittenCompletely ==
    pc \in {"fatal", "serving", "exit0"} =>
        \A p \in PageNames : Untouched(p) \/ Written(p)

====
